---------------------------- MODULE Spec2Model ----------------------------
(***************************************************************************)
(* A model of epub_convert.py: the tolerant markup-to-text extractor, the  *)
(* EPUB metadata resolver, the reading-order collector and the two output  *)
(* assemblers.                                                              *)
(*                                                                         *)
(* Text is a sequence of one-character strings, so that replace, regular-  *)
(* expression substitution, strip, split and join are computed character   *)
(* by character as the Python code computes them.  An archive path is the  *)
(* sequence of its "/"-separated segments: the path "a/../b.html" is      *)
(* <<"a", "..", "b.html">> and the empty path is <<"">>, which is what     *)
(* str.split("/") returns and what "/".join takes.                        *)
(***************************************************************************)
EXTENDS Integers, Sequences, FiniteSets, TLC

VARIABLES
    pc,          \* position of the running call
    stack,       \* _TextExtractor._stack
    parts,       \* _TextExtractor._parts
    ev,          \* the event last handed to the extractor
    nev,         \* number of events fed so far
    extracted,   \* every _html_to_text result of the call, empty ones too
    txtParts,    \* `parts` of epub_to_txt: the non-empty blocks
    txt,         \* `txt` of epub_to_txt / epub_to_html
    blocks,      \* `blocks` of epub_to_html
    body,        \* `body` of epub_to_html
    epub_bytes,  \* the argument of the running conversion
    fn,          \* the entry point called: "epub_to_txt" or "epub_to_html"
    opf_path,    \* result of _read_container_rootfile
    title,       \* title returned by _collect_xhtml_paths
    xhtml_paths, \* paths returned by _collect_xhtml_paths
    files,       \* result of _read_text_files
    raised,      \* the exception that ended the call, or None
    html,        \* the document returned by epub_to_html
    base,        \* arguments and result of a _join_path call
    rel,
    joined

exVars == <<stack, parts, ev, nev>>
txVars == <<extracted, txtParts, txt, blocks, body>>
cvVars == <<epub_bytes, fn, opf_path, title, xhtml_paths, files, raised, html>>
jpVars == <<base, rel, joined>>
vars == <<pc, exVars, txVars, cvVars, jpVars>>

\* Python's None, and a value that is present
None == <<>>
Some(x) == <<x>>

-----------------------------------------------------------------------------
(* Characters *)

NL == "\n"
CR == "\r"
TAB == "\t"
FF == "\f"
SP == " "
AMP == "&"
LT == "<"
GT == ">"
QUOT == "\""

\* str.strip() with no argument strips whitespace.
Whitespace == {SP, TAB, NL, CR, FF}

\* the character class [ \t\f\v] of get_text
HSpace == {SP, TAB, FF}

-----------------------------------------------------------------------------
(* str and re primitives *)

RECURSIVE Flat(_)
\* "".join(list of strings)
Flat(ss) == IF ss = <<>> THEN <<>> ELSE Head(ss) \o Flat(Tail(ss))

StartsWith(s, pat) ==
    /\ Len(pat) <= Len(s)
    /\ SubSeq(s, 1, Len(pat)) = pat

Drop(s, n) == SubSeq(s, n + 1, Len(s))

RECURSIVE Replace(_, _, _)
\* s.replace(pat, rep): leftmost, non-overlapping occurrences
Replace(s, pat, rep) ==
    IF s = <<>> THEN <<>>
    ELSE IF StartsWith(s, pat) THEN rep \o Replace(Drop(s, Len(pat)), pat, rep)
    ELSE <<Head(s)>> \o Replace(Tail(s), pat, rep)

RECURSIVE RunLen(_, _)
\* length of the longest prefix of s made of characters of cls
RunLen(s, cls) ==
    IF s = <<>> \/ Head(s) \notin cls THEN 0 ELSE 1 + RunLen(Tail(s), cls)

RECURSIVE SubRuns(_, _, _, _)
\* re.sub("[cls]{min,}", rep, s): every maximal run of at least min
\* characters of cls is replaced by rep
SubRuns(s, cls, min, rep) ==
    IF s = <<>> THEN <<>>
    ELSE LET k == RunLen(s, cls) IN
         IF k >= min THEN rep \o SubRuns(Drop(s, k), cls, min, rep)
         ELSE IF k > 0 THEN SubSeq(s, 1, k) \o SubRuns(Drop(s, k), cls, min, rep)
         ELSE <<Head(s)>> \o SubRuns(Tail(s), cls, min, rep)

RECURSIVE LStrip(_)
LStrip(s) == IF s # <<>> /\ Head(s) \in Whitespace THEN LStrip(Tail(s)) ELSE s

RECURSIVE RStrip(_)
RStrip(s) ==
    IF s # <<>> /\ s[Len(s)] \in Whitespace THEN RStrip(SubSeq(s, 1, Len(s) - 1)) ELSE s

\* s.strip()
Strip(s) == RStrip(LStrip(s))

RECURSIVE SplitAcc(_, _, _)
SplitAcc(s, sep, cur) ==
    IF s = <<>> THEN <<cur>>
    ELSE IF StartsWith(s, sep) THEN <<cur>> \o SplitAcc(Drop(s, Len(sep)), sep, <<>>)
    ELSE SplitAcc(Tail(s), sep, Append(cur, Head(s)))

\* s.split(sep): always at least one piece
Split(s, sep) == SplitAcc(s, sep, <<>>)

RECURSIVE Join(_, _)
\* sep.join(list)
Join(ss, sep) ==
    IF ss = <<>> THEN <<>>
    ELSE IF Len(ss) = 1 THEN Head(ss)
    ELSE Head(ss) \o sep \o Join(Tail(ss), sep)

-----------------------------------------------------------------------------
(* Markup text extractor *)

_BLOCK_TAGS ==
    { "p", "div", "section", "article", "header", "footer", "aside",
      "h1", "h2", "h3", "h4", "h5", "h6",
      "ul", "ol", "li",
      "pre", "blockquote",
      "hr", "br",
      "table", "tr" }

\* Tag names as the events carry them.
TagInputs == {"div", "DIV", "p", "span", "script", "STYLE", "br"}

\* str.lower() on the tag names of the model
Lower(tag) ==
    CASE tag = "DIV" -> "div"
      [] tag = "STYLE" -> "style"
      [] OTHER -> tag

\* handle_starttag: the new (_stack, _parts)
handle_starttag(stk, prts, t) ==
    LET tag == Lower(t) IN
    [ stack |-> Append(stk, tag),
      parts |-> IF tag \in {"br", "hr"} THEN Append(prts, <<NL>>)
                ELSE IF tag \in _BLOCK_TAGS THEN Append(prts, <<NL>>)
                ELSE prts ]

RECURSIVE PopToMatchTopmost(_, _, _)
PopToMatchTopmost(stk, tag, i) ==
    IF i < 1 THEN stk
    ELSE IF stk[i] = tag THEN SubSeq(stk, 1, i - 1)
    ELSE PopToMatchTopmost(stk, tag, i - 1)

RECURSIVE PopToMatchBottom(_, _, _)
PopToMatchBottom(stk, tag, i) ==
    IF i > Len(stk) THEN stk
    ELSE IF stk[i] = tag THEN SubSeq(stk, 1, i - 1)
    ELSE PopToMatchBottom(stk, tag, i + 1)

\* a scan from the bottom of the stack instead of from the top
PopToMatch_FromBottom(stk, tag) == PopToMatchBottom(stk, tag, 1)

\* the loop of handle_endtag: for i in range(len(stack) - 1, -1, -1)
PopToMatch(stk, tag) == PopToMatchTopmost(stk, tag, Len(stk))

\* handle_endtag: the new (_stack, _parts)
handle_endtag(stk, prts, t) ==
    LET tag == Lower(t) IN
    [ stack |-> PopToMatch(stk, tag),
      parts |-> IF tag \in _BLOCK_TAGS THEN Append(prts, <<NL>>) ELSE prts ]

\* only the innermost open tag is looked at
handle_data_TopOnly(stk, prts, data) ==
    IF data = <<>> THEN prts
    ELSE IF stk # <<>> /\ stk[Len(stk)] \in {"script", "style"} THEN prts
    ELSE Append(prts, data)

\* handle_data: the new _parts
handle_data(stk, prts, data) ==
    IF data = <<>> THEN prts
    ELSE IF \E i \in 1..Len(stk) : stk[i] \in {"script", "style"} THEN prts
    ELSE Append(prts, data)

\* the trailing strip() is left out
get_text_NoStrip(prts) ==
    LET t0 == Flat(prts)
        t1 == Replace(Replace(t0, <<CR, NL>>, <<NL>>), <<CR>>, <<NL>>)
        t2 == SubRuns(t1, HSpace, 1, <<SP>>)
    IN SubRuns(t2, {NL}, 3, <<NL, NL>>)

\* get_text
get_text(prts) ==
    LET t0 == Flat(prts)
        t1 == Replace(Replace(t0, <<CR, NL>>, <<NL>>), <<CR>>, <<NL>>)
        t2 == SubRuns(t1, HSpace, 1, <<SP>>)
        t3 == SubRuns(t2, {NL}, 3, <<NL, NL>>)
    IN Strip(t3)

\* _html_to_text, given the _parts the fed markup left in the extractor
_html_to_text(prts) == get_text(prts)

-----------------------------------------------------------------------------
(* Output assemblers *)

\* epub_to_txt, lines 207-209: join, strip, collapse, trailing newline
JoinBlocks(prts) ==
    LET t0 == Strip(Join(prts, <<NL, NL>>))
        t1 == SubRuns(t0, {NL}, 3, <<NL, NL>>)
    IN t1 \o (IF t1 # <<>> THEN <<NL>> ELSE <<>>)

\* the four escapes applied with the ampersand last
EscapePara_AmpLast(p) ==
    LET e1 == Replace(p, <<LT>>, <<AMP, "l", "t", ";">>)
        e2 == Replace(e1, <<GT>>, <<AMP, "g", "t", ";">>)
        e3 == Replace(e2, <<QUOT>>, <<AMP, "q", "u", "o", "t", ";">>)
        e4 == Replace(e3, <<AMP>>, <<AMP, "a", "m", "p", ";">>)
    IN Replace(e4, <<NL>>, <<LT, "b", "r", "/", GT>>)

\* epub_to_html, lines 239-245: escape a paragraph, then mark line breaks
EscapePara(p) ==
    LET e1 == Replace(p, <<AMP>>, <<AMP, "a", "m", "p", ";">>)
        e2 == Replace(e1, <<LT>>, <<AMP, "l", "t", ";">>)
        e3 == Replace(e2, <<GT>>, <<AMP, "g", "t", ";">>)
        e4 == Replace(e3, <<QUOT>>, <<AMP, "q", "u", "o", "t", ";">>)
    IN Replace(e4, <<NL>>, <<LT, "b", "r", "/", GT>>)

RECURSIVE RenderParas(_)
\* the loop of epub_to_html, lines 233-246, over txt.split("\n\n")
RenderParas(paras) ==
    IF paras = <<>> THEN <<>>
    ELSE LET p == Strip(Head(paras)) IN
         IF p = <<>> THEN RenderParas(Tail(paras))
         ELSE <<(<<LT, "p", GT>> \o EscapePara(p) \o <<LT, "/", "p", GT>>)>>
                  \o RenderParas(Tail(paras))

\* `blocks` of epub_to_html
RenderBlocks(t) == RenderParas(Split(t, <<NL, NL>>))

-----------------------------------------------------------------------------
(* Archive metadata resolver *)

\* the empty string as a path
EmptyPath == <<"">>

RECURSIVE Normalize(_, _)
\* the loop of _join_path, lines 101-109, over the segments left to read
Normalize(segs, prts) ==
    IF segs = <<>> THEN prts
    ELSE LET p == Head(segs) IN
         IF p = "" \/ p = "." THEN Normalize(Tail(segs), prts)
         ELSE IF p = ".."
              THEN Normalize(Tail(segs),
                             IF prts # <<>> THEN SubSeq(prts, 1, Len(prts) - 1) ELSE prts)
         ELSE Normalize(Tail(segs), Append(prts, p))

\* "/".join(parts) as a path
JoinSegments(prts) == IF prts = <<>> THEN EmptyPath ELSE prts

\* _join_path
_join_path(b, r) ==
    IF b = EmptyPath THEN r
    ELSE IF Len(b) = 1 THEN r
    ELSE LET prefix == SubSeq(b, 1, Len(b) - 1) IN
         JoinSegments(Normalize(prefix \o r, <<>>))

\* An archive is [kind, names, container, opf]:
\*   names      the content entries in archive order;
\*   container  what reading and parsing META-INF/container.xml gives:
\*              [kind, full_path] with kind "missing" (KeyError),
\*              "ParseError" (ill-formed markup), "LookupError" (an XML
\*              declaration naming an encoding Python does not know: the
\*              exception ET.fromstring raises is not a ParseError),
\*              "no_rootfile", "no_full_path" or "rootfile";
\*   opf        what reading and parsing the package document gives:
\*              [kind, titleText, items, itemrefs] with kind "missing"
\*              (KeyError), "ParseError" or "ok".

ContainerXml == <<"META-INF", "container.xml">>

NoContainer == [kind |-> "missing", full_path |-> EmptyPath]

NoOpf == [kind |-> "missing", titleText |-> None, items |-> <<>>, itemrefs |-> <<>>]

\* epub_bytes is None
NoBytes == [kind |-> "None", names |-> <<>>, container |-> NoContainer, opf |-> NoOpf]

\* bytes that are not a zip archive
NotZip == [kind |-> "NotZip", names |-> <<>>, container |-> NoContainer, opf |-> NoOpf]

\* `if opf_path`: neither None nor the empty string
TruthyPath(o) == o # None /\ o[1] # EmptyPath

\* `if text`: neither None nor the empty string
TruthyText(o) == o # None /\ o[1] # <<>>

\* zf.namelist()
namelist(zf) ==
    (IF zf.container.kind # "missing" THEN <<ContainerXml>> ELSE <<>>)
    \o (IF zf.container.kind = "rootfile" /\ zf.container.full_path # EmptyPath
           /\ zf.opf.kind # "missing"
        THEN <<zf.container.full_path>> ELSE <<>>)
    \o zf.names

\* _read_container_rootfile: the exception that escapes it, if any, and
\* the value returned
_read_container_rootfile(zf) ==
    LET c == zf.container IN
    CASE c.kind = "missing" -> [raised |-> "", value |-> None]
      [] c.kind = "ParseError" -> [raised |-> "", value |-> None]
      [] c.kind = "LookupError" -> [raised |-> "LookupError", value |-> None]
      [] c.kind = "no_rootfile" -> [raised |-> "", value |-> None]
      [] c.kind = "no_full_path" -> [raised |-> "", value |-> None]
      [] OTHER -> [raised |-> "", value |-> Some(c.full_path)]

NoManifest == [id \in {} |-> [href |-> EmptyPath, media_type |-> ""]]

RECURSIVE BuildManifest(_, _)
\* the manifest loop of _parse_opf, lines 122-128
BuildManifest(items, manifest) ==
    IF items = <<>> THEN manifest
    ELSE LET item == Head(items) IN
         IF item.id # "" /\ item.href # EmptyPath
         THEN BuildManifest(Tail(items),
                  [id \in DOMAIN manifest \cup {item.id} |->
                      IF id = item.id
                      THEN [href |-> item.href, media_type |-> item.media_type]
                      ELSE manifest[id]])
         ELSE BuildManifest(Tail(items), manifest)

IsIdref(idref) == idref # ""

\* _parse_opf: whether it raised, and the (title, manifest, spine_ids)
_parse_opf(zf) ==
    IF zf.opf.kind # "ok"
    THEN [raised |-> TRUE, title |-> None, manifest |-> NoManifest, spine_ids |-> <<>>]
    ELSE [raised |-> FALSE,
          title |-> IF TruthyText(zf.opf.titleText)
                    THEN Some(Strip(zf.opf.titleText[1])) ELSE None,
          manifest |-> BuildManifest(zf.opf.items, NoManifest),
          spine_ids |-> SelectSeq(zf.opf.itemrefs, IsIdref)]

-----------------------------------------------------------------------------
(* Document reading-order collector *)

\* the last segments of the model on which
\* s.lower().endswith((".xhtml", ".html", ".htm")) is true
HtmlSegments == {"ch1.html", "ch2.XHTML", "a.xhtml", "b.html", "B.HTM", "old.html"}

EndsWithHtmlExt(path) == path[Len(path)] \in HtmlSegments

\* the media types of the model in which "html" occurs
HtmlMediaTypes == {"application/xhtml+xml", "text/html"}

\* the entry names of the model in the order of Python's string comparison
CodePointOrder ==
    << <<"B.HTM">>, ContainerXml, <<"OEBPS", "ch1.html">>, <<"OEBPS", "content.opf">>,
       <<"OEBPS", "text", "ch2.XHTML">>, <<"a.xhtml">>, <<"b.html">>, <<"ch1.html">>,
       <<"content.opf">>, <<"notes.txt">> >>

Rank(path) == CHOOSE i \in 1..Len(CodePointOrder) : CodePointOrder[i] = path

RECURSIVE InsertSorted(_, _)
InsertSorted(sorted, x) ==
    IF sorted = <<>> THEN <<x>>
    ELSE IF Rank(x) < Rank(Head(sorted)) THEN <<x>> \o sorted
    ELSE <<Head(sorted)>> \o InsertSorted(Tail(sorted), x)

RECURSIVE SortAcc(_, _)
SortAcc(s, sorted) ==
    IF s = <<>> THEN sorted ELSE SortAcc(Tail(s), InsertSorted(sorted, Head(s)))

\* the candidates are returned in archive order
SortPaths_Unsorted(s) == s

\* list.sort() on entry names
SortPaths(s) == SortAcc(s, <<>>)

RECURSIVE SpineLoop_NoRepeat(_, _, _, _)
\* a spine id seen before is skipped
SpineLoop_NoRepeat(spine_ids, manifest, path, seen) ==
    IF spine_ids = <<>> THEN <<>>
    ELSE LET sid == Head(spine_ids)
             rest == SpineLoop_NoRepeat(Tail(spine_ids), manifest, path, seen \cup {sid})
         IN IF sid \in DOMAIN manifest /\ sid \notin seen
               /\ (manifest[sid].media_type \in HtmlMediaTypes
                     \/ EndsWithHtmlExt(manifest[sid].href))
            THEN <<_join_path(path, manifest[sid].href)>> \o rest
            ELSE rest

SpinePaths_NoRepeat(spine_ids, manifest, path) ==
    SpineLoop_NoRepeat(spine_ids, manifest, path, {})

RECURSIVE SpinePaths(_, _, _)
\* the spine loop of _collect_xhtml_paths, lines 146-152
SpinePaths(spine_ids, manifest, path) ==
    IF spine_ids = <<>> THEN <<>>
    ELSE LET sid == Head(spine_ids)
             rest == SpinePaths(Tail(spine_ids), manifest, path)
         IN IF sid \in DOMAIN manifest
               /\ (manifest[sid].media_type \in HtmlMediaTypes
                     \/ EndsWithHtmlExt(manifest[sid].href))
            THEN <<_join_path(path, manifest[sid].href)>> \o rest
            ELSE rest

\* the fallback scan of _collect_xhtml_paths, lines 158-163
ScanArchive(zf) ==
    [title |-> None, paths |-> SortPaths(SelectSeq(namelist(zf), EndsWithHtmlExt))]

\* what the package document gave, or nothing when _parse_opf raised
ParsedOrEmpty(zf) ==
    LET r == _parse_opf(zf) IN
    IF r.raised THEN [title |-> None, manifest |-> NoManifest, spine_ids |-> <<>>]
    ELSE [title |-> r.title, manifest |-> r.manifest, spine_ids |-> r.spine_ids]

\* the fallback scan keeps the title of the package document
_collect_xhtml_paths_KeepTitle(zf, opf) ==
    IF TruthyPath(opf)
    THEN LET m == ParsedOrEmpty(zf)
             found == SpinePaths(m.spine_ids, m.manifest, opf[1])
         IN IF found # <<>> THEN [title |-> m.title, paths |-> found]
            ELSE [title |-> m.title, paths |-> ScanArchive(zf).paths]
    ELSE ScanArchive(zf)

\* _collect_xhtml_paths: the (title, xhtml_paths) returned
_collect_xhtml_paths(zf, opf) ==
    IF TruthyPath(opf)
    THEN LET m == ParsedOrEmpty(zf)
             found == SpinePaths(m.spine_ids, m.manifest, opf[1])
         IN IF found # <<>> THEN [title |-> m.title, paths |-> found]
            ELSE ScanArchive(zf)
    ELSE ScanArchive(zf)

\* The bytes of the content entries of the model, an ASCII byte written as
\* its character; "0xE9" is the single byte E9, which is not valid UTF-8.
\* The markup of an entry is text outside any element.
EntryBytes(path) ==
    CASE path = <<"OEBPS", "ch1.html">> -> <<"1">>
      [] path = <<"OEBPS", "text", "ch2.XHTML">> -> <<SP, NL>>
      [] path = <<"a.xhtml">> -> <<"a">>
      [] path = <<"b.html">> -> <<"b", NL, NL, NL, "b">>
      [] path = <<"B.HTM">> -> <<"B", "0xE9">>
      [] path = <<"ch1.html">> -> <<"r">>
      [] OTHER -> <<"n">>

\* raw.decode("utf-8"), and raw.decode("latin-1", errors="replace") when
\* that raises: latin-1 gives every byte a character, E9 the character
\* U+00E9
Decode(raw) ==
    IF \A i \in 1..Len(raw) : raw[i] # "0xE9" THEN raw
    ELSE [i \in 1..Len(raw) |-> IF raw[i] = "0xE9" THEN "U+00E9" ELSE raw[i]]

InArchive(zf, path) == \E i \in 1..Len(namelist(zf)) : namelist(zf)[i] = path

RECURSIVE _read_text_files(_, _)
\* _read_text_files: the (path, text) pairs of the entries found
_read_text_files(zf, paths) ==
    IF paths = <<>> THEN <<>>
    ELSE IF ~InArchive(zf, Head(paths)) THEN _read_text_files(zf, Tail(paths))
    ELSE <<[path |-> Head(paths), html |-> Decode(EntryBytes(Head(paths)))]>>
             \o _read_text_files(zf, Tail(paths))

RECURSIVE ExtractAll(_)
\* _html_to_text on every file, empty results included
ExtractAll(fs) ==
    IF fs = <<>> THEN <<>>
    ELSE <<_html_to_text(handle_data(<<>>, <<>>, Head(fs).html))>> \o ExtractAll(Tail(fs))

\* truncation before the characters are removed
SafeTitle_TruncateFirst(t) ==
    LET t0 == Strip(IF TruthyText(t) THEN t[1] ELSE <<"E", "P", "U", "B">>)
        t1 == SubSeq(t0, 1, IF Len(t0) < 200 THEN Len(t0) ELSE 200)
    IN SubRuns(t1, {LT, GT, AMP, QUOT}, 1, <<>>)

\* safe_title of epub_to_html, lines 229-230
SafeTitle(t) ==
    LET t0 == Strip(IF TruthyText(t) THEN t[1] ELSE <<"E", "P", "U", "B">>)
        t1 == SubRuns(t0, {LT, GT, AMP, QUOT}, 1, <<>>)
    IN SubSeq(t1, 1, IF Len(t1) < 200 THEN Len(t1) ELSE 200)

\* A conversion up to the text: the exception that ends it, if any, and the
\* values of its locals (epub_to_txt lines 192-209, epub_to_html 216-228).
Convert(bytes) ==
    LET nothing == [raised |-> "", opf_path |-> None, title |-> None,
                    xhtml_paths |-> <<>>, files |-> <<>>, extracted |-> <<>>,
                    parts |-> <<>>, txt |-> <<>>]
    IN
    IF bytes.kind = "None" THEN [nothing EXCEPT !.raised = "ValueError"]
    ELSE IF bytes.kind = "NotZip" THEN [nothing EXCEPT !.raised = "BadZipFile"]
    ELSE LET rootfile == _read_container_rootfile(bytes) IN
         IF rootfile.raised # "" THEN [nothing EXCEPT !.raised = rootfile.raised]
         ELSE LET found == _collect_xhtml_paths(bytes, rootfile.value)
                  fs == _read_text_files(bytes, found.paths)
                  texts == ExtractAll(fs)
                  kept == SelectSeq(texts, LAMBDA x : x # <<>>)
              IN [raised |-> "", opf_path |-> rootfile.value, title |-> found.title,
                  xhtml_paths |-> found.paths, files |-> fs, extracted |-> texts,
                  parts |-> kept, txt |-> JoinBlocks(kept)]

-----------------------------------------------------------------------------
(* Idle values of the variables a specification does not use *)

ExIdle ==
    /\ stack = <<>>
    /\ parts = <<>>
    /\ ev = [kind |-> "none", tag |-> "", data |-> <<>>]
    /\ nev = 0

TxIdle ==
    /\ extracted = <<>>
    /\ txtParts = <<>>
    /\ txt = <<>>
    /\ blocks = <<>>
    /\ body = <<>>

CvIdle ==
    /\ epub_bytes = NoBytes
    /\ fn = ""
    /\ opf_path = None
    /\ title = None
    /\ xhtml_paths = <<>>
    /\ files = <<>>
    /\ raised = ""
    /\ html = None

JpIdle ==
    /\ base = <<"">>
    /\ rel = <<"">>
    /\ joined = EmptyPath

-----------------------------------------------------------------------------
(* SpecExtract: one _TextExtractor fed start-tag, end-tag and text events *)

\* number of events fed to one extractor
MaxEvents == 4

\* text events of the extractor specification
DataInputs == { <<>>, <<"X">> }

InitExtract ==
    /\ pc = "feed"
    /\ ExIdle /\ TxIdle /\ CvIdle /\ JpIdle

StartTag(t) ==
    /\ pc = "feed" /\ nev < MaxEvents
    /\ LET r == handle_starttag(stack, parts, t) IN
        /\ stack' = r.stack
        /\ parts' = r.parts
    /\ ev' = [kind |-> "start", tag |-> t, data |-> <<>>]
    /\ nev' = nev + 1
    /\ UNCHANGED <<pc, txVars, cvVars, jpVars>>

EndTag(t) ==
    /\ pc = "feed" /\ nev < MaxEvents
    /\ LET r == handle_endtag(stack, parts, t) IN
        /\ stack' = r.stack
        /\ parts' = r.parts
    /\ ev' = [kind |-> "end", tag |-> t, data |-> <<>>]
    /\ nev' = nev + 1
    /\ UNCHANGED <<pc, txVars, cvVars, jpVars>>

Data(d) ==
    /\ pc = "feed" /\ nev < MaxEvents
    /\ parts' = handle_data(stack, parts, d)
    /\ ev' = [kind |-> "data", tag |-> "", data |-> d]
    /\ nev' = nev + 1
    /\ UNCHANGED <<pc, stack, txVars, cvVars, jpVars>>

NextExtract ==
    \/ \E t \in TagInputs : StartTag(t)
    \/ \E t \in TagInputs : EndTag(t)
    \/ \E d \in DataInputs : Data(d)

SpecExtract == InitExtract /\ [][NextExtract]_vars

\* some open tag is a script or style container
InsideScriptOrStyle == \E i \in 1..Len(stack) : stack[i] \in {"script", "style"}

\* C5: a text event leaves the output untouched when a script or style
\* element is anywhere on the open-tag stack, and otherwise adds exactly
\* its text to the end of the output; the stack itself is not touched.
C5_TextKeptIffNotInsideScriptOrStyle ==
    [][ev'.kind = "data" =>
           /\ stack' = stack
           /\ IF InsideScriptOrStyle
                 THEN parts' = parts
                 ELSE Flat(parts') = Flat(parts) \o ev'.data]_vars

\* a text event arrived while a script was open below the innermost open
\* tag, and nothing was emitted
C5_Witness ==
    /\ ev.kind = "data" /\ ev.data = <<"X">>
    /\ Len(stack) >= 2 /\ stack[1] = "script" /\ stack[Len(stack)] = "span"
    /\ parts = <<>>

\* indices of the stack entries named tag
Matches(stk, tag) == { i \in 1..Len(stk) : stk[i] = tag }

SetMax(S) == CHOOSE m \in S : \A x \in S : x <= m

\* C6: an end tag removes the topmost entry with its lower-cased name and
\* all entries above it, leaves the stack alone when no entry matches, and
\* emits one newline marker exactly when the tag is block-level; feeding
\* <div><p>X</div> therefore ends with an empty stack and the text "X".
C6_EndTagPopsToTopmostMatch ==
    [][ev'.kind = "end" =>
           LET tag == Lower(ev'.tag)
               m == Matches(stack, tag)
           IN /\ m = {} => stack' = stack
              /\ m # {} => stack' = SubSeq(stack, 1, SetMax(m) - 1)
              /\ parts' = IF tag \in _BLOCK_TAGS THEN Append(parts, <<NL>>) ELSE parts
              /\ (stack = <<"div", "p">> /\ parts = <<<<NL>>, <<NL>>, <<"X">>>> /\ tag = "div")
                     => (stack' = <<>> /\ get_text(parts') = <<"X">>)]_vars

\* <div><p>X</div> has been fed
C6_Witness ==
    /\ ev.kind = "end" /\ ev.tag = "div"
    /\ stack = <<>>
    /\ parts = <<<<NL>>, <<NL>>, <<"X">>, <<NL>>>>

-----------------------------------------------------------------------------
(* SpecText: the text of a list of documents is extracted, joined into the *)
(* plain-text output and rendered as the paragraphs of the HTML output.    *)

\* text fragments fed to the extractors of one call, all documents together
MaxFrags == 5

\* documents of one call
MaxDocs == 3

\* text events of the documents
TextInputs == { <<"a">>, <<SP>>, <<CR>>, <<NL, NL>>, <<AMP, LT, QUOT, GT>> }

InitText ==
    /\ pc = "extract"
    /\ ExIdle /\ TxIdle /\ CvIdle /\ JpIdle

\* a text event of the document being parsed
FeedText(d) ==
    /\ pc = "extract" /\ nev < MaxFrags
    /\ parts' = handle_data(stack, parts, d)
    /\ ev' = [kind |-> "data", tag |-> "", data |-> d]
    /\ nev' = nev + 1
    /\ UNCHANGED <<pc, stack, txVars, cvVars, jpVars>>

\* one round of the loop of epub_to_txt, lines 202-205; the next document
\* gets a new extractor
NextFile ==
    /\ pc = "extract" /\ Len(extracted) < MaxDocs
    /\ LET text == _html_to_text(parts) IN
        /\ extracted' = Append(extracted, text)
        /\ txtParts' = IF text # <<>> THEN Append(txtParts, text) ELSE txtParts
    /\ parts' = <<>>
    /\ ev' = [kind |-> "none", tag |-> "", data |-> <<>>]
    /\ UNCHANGED <<pc, stack, nev, txt, blocks, body, cvVars, jpVars>>

\* epub_to_txt, lines 207-209
JoinText ==
    /\ pc = "extract" /\ parts = <<>>
    /\ txt' = JoinBlocks(txtParts)
    /\ pc' = "txt"
    /\ UNCHANGED <<exVars, extracted, txtParts, blocks, body, cvVars, jpVars>>

\* epub_to_html, lines 233-248
RenderBody ==
    /\ pc = "txt"
    /\ blocks' = RenderBlocks(txt)
    /\ body' = Join(RenderBlocks(txt), <<NL>>)
    /\ pc' = "html"
    /\ UNCHANGED <<exVars, extracted, txtParts, txt, cvVars, jpVars>>

NextText ==
    \/ \E d \in TextInputs : FeedText(d)
    \/ NextFile
    \/ JoinText
    \/ RenderBody

SpecText == InitText /\ [][NextText]_vars

NonEmpty(b) == b # <<>>

HasTripleNewline(t) == \E i \in 1..(Len(t) - 2) : t[i] = NL /\ t[i + 1] = NL /\ t[i + 2] = NL

\* C7: the plain-text output is the non-empty extracted blocks in document
\* order with exactly two newlines between neighbours and exactly one
\* newline after the last; it is empty when there is no non-empty block;
\* and it holds no run of three or more newlines.
C7_TextIsBlocksJoinedByBlankLine ==
    pc \in {"txt", "html"} =>
        LET kept == SelectSeq(extracted, NonEmpty) IN
        /\ txt = IF kept = <<>> THEN <<>> ELSE Join(kept, <<NL, NL>>) \o <<NL>>
        /\ ~HasTripleNewline(txt)

\* three documents, the second without text, the first with a run of three
\* newlines inside it
C7_Witness ==
    /\ pc = "txt"
    /\ Len(extracted) = 3 /\ extracted[2] = <<>>
    /\ extracted[1] = <<"a", NL, NL, "a">>
    /\ Len(txtParts) = 2
    /\ nev = 5

EndsWith(s, pat) ==
    /\ Len(pat) <= Len(s)
    /\ SubSeq(s, Len(s) - Len(pat) + 1, Len(s)) = pat

\* the paragraph elements of a body, one per line
Elements(b) == IF b = <<>> THEN <<>> ELSE Split(b, <<NL>>)

IsParagraphElement(e) ==
    /\ Len(e) >= 7
    /\ StartsWith(e, <<LT, "p", GT>>)
    /\ EndsWith(e, <<LT, "/", "p", GT>>)

Inner(e) == SubSeq(e, 4, Len(e) - 4)

Escapes ==
    { [from |-> <<AMP, "a", "m", "p", ";">>, to |-> AMP],
      [from |-> <<AMP, "l", "t", ";">>, to |-> LT],
      [from |-> <<AMP, "g", "t", ";">>, to |-> GT],
      [from |-> <<AMP, "q", "u", "o", "t", ";">>, to |-> QUOT],
      [from |-> <<LT, "b", "r", "/", GT>>, to |-> NL] }

RECURSIVE Unescape(_)
\* what a reader of the markup sees: each escape sequence and line-break
\* marker read once, left to right; "?" stands for markup that is neither
Unescape(s) ==
    IF s = <<>> THEN <<>>
    ELSE IF \E e \in Escapes : StartsWith(s, e.from)
         THEN LET e == CHOOSE x \in Escapes : StartsWith(s, x.from) IN
              <<e.to>> \o Unescape(Drop(s, Len(e.from)))
    ELSE IF Head(s) \in {AMP, LT, GT, QUOT} THEN <<"?">> \o Unescape(Tail(s))
    ELSE <<Head(s)>> \o Unescape(Tail(s))

NotBlank(p) == Strip(p) # <<>>

\* body b has one paragraph element per paragraph of ps, in order, each
\* reading back as the trimmed paragraph
BodyRendersParagraphs(b, ps) ==
    LET es == Elements(b) IN
    /\ Len(es) = Len(ps)
    /\ \A i \in 1..Len(es) :
          /\ IsParagraphElement(es[i])
          /\ Unescape(Inner(es[i])) = Strip(ps[i])

\* C9 as stated: one paragraph element per non-empty paragraph of the text
C9_Original_OneElementPerNonEmptyParagraph ==
    pc = "html" =>
        BodyRendersParagraphs(body, SelectSeq(Split(txt, <<NL, NL>>), NonEmpty))

\* C9 (amended): the body has exactly one paragraph element per blank-line-
\* separated paragraph of the plain text that is not empty after trimming
\* whitespace, in the same order; read back with each escape sequence
\* unescaped once and each line-break marker as a newline, an element is
\* its trimmed paragraph, so nothing was escaped twice and the line-break
\* marker is the only markup inside.
C9_OneElementPerNonBlankParagraph ==
    pc = "html" =>
        BodyRendersParagraphs(body, SelectSeq(Split(txt, <<NL, NL>>), NotBlank))

\* two paragraphs were rendered from a text holding &, ", < and > and a
\* paragraph with an internal newline
C9_Witness ==
    /\ pc = "html"
    /\ txt = <<AMP, LT, QUOT, GT, NL, "a", NL, NL, "a", NL>>
    /\ Len(blocks) = 2

-----------------------------------------------------------------------------
(* SpecConv: epub_to_txt and epub_to_html on None, on bytes that are no    *)
(* archive, and on archives.                                                *)

\* content entries of an archive of the reading-order family
MaxNames == 2

\* item references of a spine of the reading-order family
MaxSpine == 2

\* the manifest items of the package documents, hrefs relative to the
\* package document: a repeated id, an html media type with and without an
\* html extension, an extension alone, neither, no href, no id
Items ==
    << [id |-> "a", href |-> <<"old.html">>, media_type |-> "text/html"],
       [id |-> "a", href |-> <<"ch1.html">>, media_type |-> "application/xhtml+xml"],
       [id |-> "b", href |-> <<"text", "ch2.XHTML">>, media_type |-> ""],
       [id |-> "c", href |-> <<"img.png">>, media_type |-> "image/png"],
       [id |-> "d", href |-> <<"..", "notes.txt">>, media_type |-> "text/html"],
       [id |-> "e", href |-> EmptyPath, media_type |-> "text/html"],
       [id |-> "", href |-> <<"a.xhtml">>, media_type |-> "text/html"] >>

\* idref attributes; "" is an itemref without one
IdRefs == {"a", "b", "c", "d", "e", ""}

NameUniverse ==
    { <<"B.HTM">>, <<"OEBPS", "ch1.html">>, <<"a.xhtml">>, <<"b.html">>, <<"notes.txt">> }

\* the sequences of at most n elements of S
SeqsUpTo(S, n) == UNION { [1..k -> S] : k \in 0..n }

NoRepeat(s) == \A i, j \in 1..Len(s) : s[i] = s[j] => i = j

RootOpf == <<"content.opf">>

OebpsOpf == <<"OEBPS", "content.opf">>

Rootfile(path) == [kind |-> "rootfile", full_path |-> path]

EvilTitle == <<LT, "E", SP, AMP, SP, QUOT, "T", QUOT, GT>>

LongTitle == <<LT>> \o [i \in 1..201 |-> "x"]

\* the text of the first dc:title element
TitleTexts ==
    { None, Some(<<SP, SP>>), Some(<<SP, "T", SP>>), Some(EvilTitle), Some(LongTitle) }

\* archives that vary the entry order and the spine
ReadingOrderFamily ==
    { [kind |-> "zip", names |-> n, container |-> c, opf |-> o] :
        n \in { s \in SeqsUpTo(NameUniverse, MaxNames) : NoRepeat(s) },
        c \in { NoContainer, Rootfile(RootOpf), Rootfile(OebpsOpf) },
        o \in { [kind |-> "ParseError", titleText |-> None, items |-> <<>>, itemrefs |-> <<>>] }
             \cup { [kind |-> "ok", titleText |-> Some(<<"T">>), items |-> Items, itemrefs |-> r] :
                       r \in SeqsUpTo(IdRefs, MaxSpine) } }

\* archives that vary the anomalies and the title
AnomalyFamily ==
    { [kind |-> "zip", names |-> n, container |-> c, opf |-> o] :
        n \in { << <<"b.html">>, <<"a.xhtml">> >>,
                << <<"OEBPS", "text", "ch2.XHTML">>, <<"OEBPS", "ch1.html">>, <<"B.HTM">> >> },
        c \in { [kind |-> k, full_path |-> EmptyPath] :
                  k \in {"missing", "ParseError", "LookupError", "no_rootfile", "no_full_path"} }
             \cup { Rootfile(EmptyPath), Rootfile(RootOpf), Rootfile(OebpsOpf) },
        o \in { [kind |-> k, titleText |-> None, items |-> <<>>, itemrefs |-> <<>>] :
                  k \in {"missing", "ParseError"} }
             \cup { [kind |-> "ok", titleText |-> t, items |-> Items, itemrefs |-> r] :
                       t \in TitleTexts,
                       r \in { <<>>, <<"c">>, <<"a", "d", "b", "a">> } } }

InitConv ==
    /\ pc = "call"
    /\ epub_bytes \in {NoBytes, NotZip} \cup ReadingOrderFamily \cup AnomalyFamily
    /\ fn = ""
    /\ opf_path = None
    /\ title = None
    /\ xhtml_paths = <<>>
    /\ files = <<>>
    /\ raised = ""
    /\ html = None
    /\ ExIdle /\ TxIdle /\ JpIdle

\* epub_to_txt
CallTxt ==
    /\ pc = "call"
    /\ LET r == Convert(epub_bytes) IN
        /\ raised' = r.raised
        /\ opf_path' = r.opf_path
        /\ title' = r.title
        /\ xhtml_paths' = r.xhtml_paths
        /\ files' = r.files
        /\ extracted' = r.extracted
        /\ txtParts' = r.parts
        /\ txt' = r.txt
    /\ fn' = "epub_to_txt"
    /\ pc' = "done"
    /\ UNCHANGED <<epub_bytes, html, blocks, body, exVars, jpVars>>

\* epub_to_html: its own pass over the archive, the call of epub_to_txt
\* on the same bytes, and the rendering
CallHtml ==
    /\ pc = "call"
    /\ LET r == Convert(epub_bytes)
            t == Convert(epub_bytes)
            safe_title == SafeTitle(r.title)
        IN
        /\ raised' = r.raised
        /\ opf_path' = r.opf_path
        /\ title' = r.title
        /\ xhtml_paths' = r.xhtml_paths
        /\ files' = r.files
        /\ extracted' = t.extracted
        /\ txtParts' = t.parts
        /\ txt' = t.txt
        /\ blocks' = IF r.raised = "" THEN RenderBlocks(t.txt) ELSE <<>>
        /\ body' = IF r.raised = "" THEN Join(RenderBlocks(t.txt), <<NL>>) ELSE <<>>
        /\ html' = IF r.raised = ""
                   THEN Some([title_element |-> safe_title, heading |-> safe_title,
                              body |-> Join(RenderBlocks(t.txt), <<NL>>)])
                   ELSE None
    /\ fn' = "epub_to_html"
    /\ pc' = "done"
    /\ UNCHANGED <<epub_bytes, exVars, jpVars>>

NextConv == CallTxt \/ CallHtml

SpecConv == InitConv /\ [][NextConv]_vars

\* the call ended by returning a string
Returned == pc = "done" /\ raised = ""

\* the container names a package document
HasPointer ==
    /\ epub_bytes.kind = "zip"
    /\ epub_bytes.container.kind = "rootfile"
    /\ epub_bytes.container.full_path # EmptyPath

\* the package document is there and well-formed
PackageOk == epub_bytes.opf.kind = "ok"

\* the positions of the manifest items that declare id and have an href
Declaring(id) ==
    { i \in 1..Len(epub_bytes.opf.items) :
        /\ id # ""
        /\ epub_bytes.opf.items[i].id = id
        /\ epub_bytes.opf.items[i].href # EmptyPath }

\* the manifest entry of id: the last item declaring it
Entry(id) == epub_bytes.opf.items[SetMax(Declaring(id))]

\* id is in the manifest and its entry is HTML-like
HtmlLikeEntry(id) ==
    /\ Declaring(id) # {}
    /\ \/ Entry(id).media_type \in HtmlMediaTypes
       \/ EndsWithHtmlExt(Entry(id).href)

\* the spine in spine order, filtered to HTML-like manifest entries, each
\* href resolved by _join_path against the package document
SpineDocuments ==
    LET ids == SelectSeq(epub_bytes.opf.itemrefs, HtmlLikeEntry) IN
    [i \in 1..Len(ids) |-> _join_path(epub_bytes.container.full_path, Entry(ids[i]).href)]

\* C1 as stated: with a pointer, a well-formed package document and a
\* non-empty spine the documents are the filtered spine
C1_Original_NonEmptySpineGivesSpineOrder ==
    (Returned /\ HasPointer /\ PackageOk
        /\ SelectSeq(epub_bytes.opf.itemrefs, IsIdref) # <<>>)
    => xhtml_paths = SpineDocuments

\* C1 (amended): with a pointer, a well-formed package document and a
\* spine of which at least one id is in the manifest with an HTML-like
\* entry, the documents are the spine ids in spine order, filtered to the
\* ids in the manifest whose entry is HTML-like, each resolved by
\* _join_path against the package document, repeated ids giving repeated
\* paths.
C1_HtmlLikeSpineGivesSpineOrder ==
    (Returned /\ HasPointer /\ PackageOk /\ SpineDocuments # <<>>)
    => xhtml_paths = SpineDocuments

\* a spine that repeats an id, in an order that is not the sorted one
C1_Witness ==
    /\ Returned /\ HasPointer /\ PackageOk
    /\ epub_bytes.opf.itemrefs = <<"a", "d", "b", "a">>
    /\ xhtml_paths = << <<"OEBPS", "ch1.html">>, <<"notes.txt">>,
                        <<"OEBPS", "text", "ch2.XHTML">>, <<"OEBPS", "ch1.html">> >>

\* the fallback scan is taken
TakesFallback ==
    /\ epub_bytes.kind = "zip"
    /\ ~HasPointer \/ ~PackageOk \/ SpineDocuments = <<>>

HtmlNamesOf(zf) ==
    { namelist(zf)[i] : i \in { j \in 1..Len(namelist(zf)) : EndsWithHtmlExt(namelist(zf)[j]) } }

\* C2: without a pointer, with a package document that does not parse, or
\* with no HTML-like spine document, the documents are exactly the entry
\* names with an HTML extension, each once, in increasing string order,
\* whatever the order of the archive: b.html, a.xhtml gives a.xhtml, b.html.
C2_FallbackIsSortedHtmlNames ==
    (Returned /\ TakesFallback) =>
        /\ { xhtml_paths[i] : i \in 1..Len(xhtml_paths) } = HtmlNamesOf(epub_bytes)
        /\ \A i, j \in 1..Len(xhtml_paths) :
              i < j => Rank(xhtml_paths[i]) < Rank(xhtml_paths[j])
        /\ epub_bytes.names = << <<"b.html">>, <<"a.xhtml">> >>
              => xhtml_paths = << <<"a.xhtml">>, <<"b.html">> >>

\* a well-formed package document with a spine of one non-HTML item, and
\* the loose files b.html, a.xhtml in that order
C2_Witness ==
    /\ Returned /\ HasPointer /\ PackageOk
    /\ epub_bytes.opf.itemrefs = <<"c">>
    /\ epub_bytes.names = << <<"b.html">>, <<"a.xhtml">> >>
    /\ xhtml_paths = << <<"a.xhtml">>, <<"b.html">> >>

\* C4 as stated: a conversion ends in an error only for None (the input-
\* validation error) and for bytes that are no zip archive (the archive-
\* format error); on every archive it returns a string.
C4_OnlyTwoFatalErrors ==
    pc = "done" =>
        /\ epub_bytes.kind = "None" => raised = "ValueError"
        /\ epub_bytes.kind = "NotZip" => raised = "BadZipFile"
        /\ epub_bytes.kind = "zip" => raised = ""

Placeholder == <<"E", "P", "U", "B">>

Forbidden == {LT, GT, AMP, QUOT}

NotForbidden(c) == c \notin Forbidden

\* t with the four characters removed, cut to 200 characters
Sanitized(t) ==
    LET kept == SelectSeq(t, NotForbidden) IN
    SubSeq(kept, 1, IF Len(kept) < 200 THEN Len(kept) ELSE 200)

\* the document embeds e as its title element and as its heading
Embeds(e) ==
    /\ html[1].title_element = e
    /\ html[1].heading = e
    /\ Len(e) <= 200
    /\ \A i \in 1..Len(e) : e[i] \notin Forbidden

\* C8 as stated: the placeholder stands in only for an absent title
C8_Original_PlaceholderOnlyWhenAbsent ==
    (Returned /\ fn = "epub_to_html") =>
        Embeds(Sanitized(IF title = None THEN Placeholder ELSE title[1]))

\* C8 (amended): the embedded title, in the title element and in the
\* heading, is the resolved title, or the placeholder when the title is
\* absent or empty, with every <, >, & and " removed and cut to at most 200
\* characters; it holds none of the four characters.
C8_TitleSanitizedPlaceholderWhenAbsentOrEmpty ==
    (Returned /\ fn = "epub_to_html") =>
        Embeds(Sanitized(IF title = None \/ title = Some(<<>>)
                         THEN Placeholder ELSE title[1]))

\* a title of 202 characters, one of them "<", was embedded
C8_Witness ==
    /\ Returned /\ fn = "epub_to_html"
    /\ title = Some(LongTitle)
    /\ Len(html[1].title_element) = 200

\* C10: whenever the fallback scan is taken the returned title is absent,
\* also when the package document parsed and declares one, and the HTML
\* document then carries the placeholder; a title of the package document
\* is returned only together with spine documents.
C10_FallbackDropsTitle ==
    /\ (Returned /\ TakesFallback) =>
          /\ title = None
          /\ fn = "epub_to_html" =>
                (html[1].title_element = Placeholder /\ html[1].heading = Placeholder)
    /\ (Returned /\ title # None) =>
          (HasPointer /\ PackageOk /\ xhtml_paths = SpineDocuments /\ xhtml_paths # <<>>)

\* a package document that declares the title T and has no HTML-like spine
\* document was converted to HTML
C10_Witness ==
    /\ Returned /\ fn = "epub_to_html"
    /\ HasPointer /\ PackageOk
    /\ epub_bytes.opf.titleText = Some(<<"T">>)
    /\ epub_bytes.opf.itemrefs = <<"c">>
    /\ title = None
    /\ html[1].title_element = Placeholder

-----------------------------------------------------------------------------
(* SpecJoin: _join_path on every package path and href of bounded length *)

\* segments of a package-document path
MaxBaseSegs == 2

\* segments of a manifest href
MaxRelSegs == 3

BaseSegments == {"", "OEBPS", "content.opf"}

RelSegments == {"", ".", "..", "text", "ch1.html"}

\* the paths of 1..n segments drawn from S
PathsUpTo(S, n) == UNION { [1..k -> S] : k \in 1..n }

InitJoin ==
    /\ pc = "call"
    /\ base \in PathsUpTo(BaseSegments, MaxBaseSegs)
    /\ rel \in PathsUpTo(RelSegments, MaxRelSegs)
    /\ joined = EmptyPath
    /\ ExIdle /\ TxIdle /\ CvIdle

JoinPath ==
    /\ pc = "call"
    /\ joined' = _join_path(base, rel)
    /\ pc' = "done"
    /\ UNCHANGED <<base, rel, exVars, txVars, cvVars>>

NextJoin == JoinPath

SpecJoin == InitJoin /\ [][NextJoin]_vars

\* C3: for every package path and every href the joined path has no ".",
\* ".." or empty segment (it is the empty path when nothing is left), the
\* package document at the archive root included.
C3_JoinedPathIsNormalised ==
    (pc = "done" /\ base # EmptyPath) =>
        \/ joined = EmptyPath
        \/ \A i \in 1..Len(joined) : joined[i] \notin {"", ".", ".."}

=============================================================================
